---------------------------- MODULE Spec2Model ----------------------------
(***************************************************************************)
(* A model of src/main.ts of gh-codex-agent: the polling pipeline (main),  *)
(* the conversation loop (openaiLoop), the command sandbox (safeRun) and   *)
(* the branch-name slug (slug).                                            *)
(*                                                                         *)
(* Texts that the code inspects character by character (commands, titles)  *)
(* are sequences of one-character strings.  File contents are sequences of *)
(* UTF-16 code units (numbers), files on disk are sequences of bytes.      *)
(* Paths are sequences of segments.                                        *)
(***************************************************************************)
EXTENDS Integers, Sequences, FiniteSets, TLC

\* ------------------------------------------------------------------ bounds

\* Free tool calls the reasoning service may choose in one run; beyond them it
\* can only repeat the one call it has answered every request with, answer
\* finally, or fail.
MaxVaried == 2
\* Most tool calls in one response.
MaxCalls == 2
\* Slug inputs: a run of at most MaxPrefix letters followed by a tail of at
\* most MaxTail characters of TailChars.
MaxPrefix == 41
MaxTail == 2

\* ------------------------------------------------------- program constants

\* for (let step = 0; step < 30; step++)
MaxSteps == 30
\* .slice(0, 40)
SlugCap == 40
\* code: 126 of a refused command
ForbiddenCode == 126
\* process.exit(1)
ExitFailure == 1

\* ----------------------------------------------------------------- strings

Lower == <<"a","b","c","d","e","f","g","h","i","j","k","l","m",
           "n","o","p","q","r","s","t","u","v","w","x","y","z">>
Upper == <<"A","B","C","D","E","F","G","H","I","J","K","L","M",
           "N","O","P","Q","R","S","T","U","V","W","X","Y","Z">>
Digits == <<"0","1","2","3","4","5","6","7","8","9">>

Range(s) == { s[i] : i \in 1..Len(s) }

\* String.prototype.toLowerCase, one character: A-Z and the accented capital
\* of the inputs map to their small letters, every other character to itself.
LowerChar(c) ==
  IF \E i \in 1..Len(Upper) : Upper[i] = c
  THEN Lower[CHOOSE i \in 1..Len(Upper) : Upper[i] = c]
  ELSE IF c = "É" THEN "é" ELSE c

toLowerCase(s) == [i \in 1..Len(s) |-> LowerChar(s[i])]

\* [a-z0-9]
IsAlnum(c) == c \in Range(Lower) \cup Range(Digits)

\* s.slice(0, n)
Slice0(s, n) == SubSeq(s, 1, IF Len(s) < n THEN Len(s) ELSE n)

\* s.includes(f)
Includes(s, f) ==
  \E i \in 0..(Len(s) - Len(f)) : SubSeq(s, i + 1, i + Len(f)) = f

IsSpace(c) == c \in {" ", "\n", "\t"}

RECURSIVE TrimStart(_)
TrimStart(s) == IF s # <<>> /\ IsSpace(Head(s)) THEN TrimStart(Tail(s)) ELSE s

RECURSIVE TrimEnd(_)
TrimEnd(s) ==
  IF s # <<>> /\ IsSpace(s[Len(s)]) THEN TrimEnd(SubSeq(s, 1, Len(s) - 1)) ELSE s

\* String.prototype.trim
Trim(s) == TrimEnd(TrimStart(s))

\* `${n}` of a non-negative integer
RECURSIVE NatToStr(_)
NatToStr(n) ==
  IF n < 10 THEN <<Digits[n + 1]>> ELSE NatToStr(n \div 10) \o <<Digits[(n % 10) + 1]>>

\* ------------------------------------------------------------------- slug

\* .replace(/[^a-z0-9]+/g, "-"): every maximal run of characters outside
\* [a-z0-9] becomes one hyphen.
RECURSIVE CollapseRuns(_, _)
CollapseRuns(s, inRun) ==
  IF s = <<>> THEN <<>>
  ELSE IF IsAlnum(Head(s)) THEN <<Head(s)>> \o CollapseRuns(Tail(s), FALSE)
  ELSE IF inRun THEN CollapseRuns(Tail(s), TRUE)
  ELSE <<"-">> \o CollapseRuns(Tail(s), TRUE)

\* .replace(/(^-|-$)/g, ""): one hyphen at the start and one at the end go.
TrimHyphens(s) ==
  LET a == IF s # <<>> /\ Head(s) = "-" THEN Tail(s) ELSE s
  IN  IF a # <<>> /\ a[Len(a)] = "-" THEN SubSeq(a, 1, Len(a) - 1) ELSE a

slug(s) == Slice0(TrimHyphens(CollapseRuns(toLowerCase(s), FALSE)), SlugCap)

\* --------------------------------------------------------------- safeRun

forbidden ==
  { <<"r","m"," ","-","r","f"," ","/">>,
    <<"m","k","f","s">>,
    <<"d","d"," ","i","f","=">>,
    <<":","(",")","{">>,
    <<"s","h","u","t","d","o","w","n">>,
    <<"r","e","b","o","o","t">>,
    <<"c","h","m","o","d"," ","-","R"," ","7","7","7"," ","/">> }

\* forbidden.some(f => cmd.includes(f))
IsForbidden(cmd) == \E f \in forbidden : Includes(cmd, f)

\* p.status of a child that was killed or could not be spawned
NullStatus == -1

\* safeRun without its guard: every command is spawned.
safeRun_noGuard(cmd, cwd, status) ==
  [cmd |-> cmd, cwd |-> cwd, spawned |-> TRUE, ok |-> (status = 0),
   code |-> IF status = NullStatus THEN 1 ELSE status]

\* safeRun(cmd, cwd) when the child, if one is spawned, ends with `status`.
safeRun(cmd, cwd, status) ==
  IF IsForbidden(cmd)
  THEN [cmd |-> cmd, cwd |-> cwd, spawned |-> FALSE, ok |-> FALSE, code |-> ForbiddenCode]
  ELSE [cmd |-> cmd, cwd |-> cwd, spawned |-> TRUE, ok |-> (status = 0),
        code |-> IF status = NullStatus THEN 1 ELSE status]

\* ------------------------------------------------------------------ UTF-8

IsHigh(u) == u >= 55296 /\ u <= 56319
IsLow(u) == u >= 56320 /\ u <= 57343

\* The bytes of one code point.
EncodePoint(cp) ==
  IF cp < 128 THEN <<cp>>
  ELSE IF cp < 2048 THEN <<192 + (cp \div 64), 128 + (cp % 64)>>
  ELSE IF cp < 65536
    THEN <<224 + (cp \div 4096), 128 + ((cp \div 64) % 64), 128 + (cp % 64)>>
  ELSE <<240 + (cp \div 262144), 128 + ((cp \div 4096) % 64),
         128 + ((cp \div 64) % 64), 128 + (cp % 64)>>

\* U+FFFD REPLACEMENT CHARACTER
Replacement == 65533

\* fs.writeFileSync(abs, content, "utf8"): a surrogate pair is one code point,
\* an unpaired surrogate is written as U+FFFD.
RECURSIVE utf8Encode(_)
utf8Encode(s) ==
  IF s = <<>> THEN <<>>
  ELSE IF IsHigh(s[1]) /\ Len(s) >= 2 /\ IsLow(s[2])
    THEN EncodePoint(65536 + (s[1] - 55296) * 1024 + (s[2] - 56320))
         \o utf8Encode(SubSeq(s, 3, Len(s)))
  ELSE IF IsHigh(s[1]) \/ IsLow(s[1])
    THEN EncodePoint(Replacement) \o utf8Encode(Tail(s))
  ELSE EncodePoint(s[1]) \o utf8Encode(Tail(s))

IsCont(b) == b >= 128 /\ b <= 191

\* The code units of one code point.
DecodePoint(cp) ==
  IF cp < 65536 THEN <<cp>>
  ELSE <<55296 + ((cp - 65536) \div 1024), 56320 + ((cp - 65536) % 1024)>>

\* A read with the "latin1" encoding: one code unit per byte.
utf8Decode_latin1(b) == b

\* fs.readFileSync(abs, "utf8"): a malformed byte reads as U+FFFD.
RECURSIVE utf8Decode(_)
utf8Decode(b) ==
  IF b = <<>> THEN <<>>
  ELSE IF b[1] < 128 THEN <<b[1]>> \o utf8Decode(Tail(b))
  ELSE IF b[1] >= 194 /\ b[1] <= 223 /\ Len(b) >= 2 /\ IsCont(b[2])
    THEN DecodePoint((b[1] - 192) * 64 + (b[2] - 128)) \o utf8Decode(SubSeq(b, 3, Len(b)))
  ELSE IF b[1] >= 224 /\ b[1] <= 239 /\ Len(b) >= 3 /\ IsCont(b[2]) /\ IsCont(b[3])
          /\ (b[1] - 224) * 4096 + (b[2] - 128) * 64 + (b[3] - 128) >= 2048
          /\ ~IsHigh((b[1] - 224) * 4096 + (b[2] - 128) * 64 + (b[3] - 128))
          /\ ~IsLow((b[1] - 224) * 4096 + (b[2] - 128) * 64 + (b[3] - 128))
    THEN DecodePoint((b[1] - 224) * 4096 + (b[2] - 128) * 64 + (b[3] - 128))
         \o utf8Decode(SubSeq(b, 4, Len(b)))
  ELSE IF b[1] >= 240 /\ b[1] <= 244 /\ Len(b) >= 4
          /\ IsCont(b[2]) /\ IsCont(b[3]) /\ IsCont(b[4])
          /\ (b[1] - 240) * 262144 + (b[2] - 128) * 4096 + (b[3] - 128) * 64
             + (b[4] - 128) >= 65536
          /\ (b[1] - 240) * 262144 + (b[2] - 128) * 4096 + (b[3] - 128) * 64
             + (b[4] - 128) <= 1114111
    THEN DecodePoint((b[1] - 240) * 262144 + (b[2] - 128) * 4096 + (b[3] - 128) * 64
                     + (b[4] - 128))
         \o utf8Decode(SubSeq(b, 5, Len(b)))
  ELSE <<Replacement>> \o utf8Decode(Tail(b))

\* Buffer.byteLength(content, "utf8")
byteLength(s) == Len(utf8Encode(s))

\* ------------------------------------------------------------------ paths

\* path.normalize of an absolute path: "." goes, ".." takes the segment
\* before it (and is dropped at the root).
RECURSIVE Normalize(_, _)
Normalize(done, rest) ==
  IF rest = <<>> THEN done
  ELSE IF Head(rest) = "." THEN Normalize(done, Tail(rest))
  ELSE IF Head(rest) = ".."
    THEN Normalize(IF done = <<>> THEN <<>> ELSE SubSeq(done, 1, Len(done) - 1), Tail(rest))
  ELSE Normalize(Append(done, Head(rest)), Tail(rest))

\* path.join(a, b) of an absolute a
pathJoin(a, b) == Normalize(<<>>, a \o b)

\* path.dirname of a normalized absolute path
dirname(p) == IF p = <<>> THEN <<>> ELSE SubSeq(p, 1, Len(p) - 1)

IsPrefix(p, q) == Len(p) <= Len(q) /\ SubSeq(q, 1, Len(p)) = p

\* p is dir itself or lies below it
Inside(dir, p) == IsPrefix(dir, p)

\* ---------------------------------------------------------- configuration

\* env.WORKDIR, as a path and as text
workRoot == <<"w">>
workRootStr == <<"/","w">>

\* env.GITHUB_REPO
RepoName == <<"r">>
\* cloneUrl
cloneUrl == <<"u","r","l">>
\* env.DEFAULT_BASE_BRANCH
BaseBranch == <<"m","a","i","n">>
\* The default branch of the remote repository, which git clone checks out.
RemoteHead == <<"d","e","v">>

\* `${env.GITHUB_REPO}-${issueNumber}` as a path segment
RepoSegs == <<"r-1", "r-2", "r-3">>

\* path.join(workRoot, `${env.GITHUB_REPO}-${issueNumber}`), as a path and as text
repoDir(n) == <<"w", RepoSegs[n]>>
repoDirStr(n) == workRootStr \o <<"/">> \o RepoName \o <<"-">> \o NatToStr(n)

\* The tree of the remote repository's default branch: one file a.txt holding "1".
RepoTree == [p \in {<<"a.txt">>} |-> <<49>>]

\* ----------------------------------------------------------------- inputs

TitleFix == <<"F","i","x"," ","a","!">>
TitleDd == <<"d","d"," ","i","f","=","x">>
TitleReboot == <<"R","e","b","o","o","t">>

MkIssue(n, pr, t) == [number |-> n, pull_request |-> pr, title |-> t]
NoIssue == MkIssue(0, FALSE, <<>>)

\* Ten open pull requests carrying the label: one full page.
TenPulls == [k \in 1..10 |-> MkIssue(k, TRUE, TitleFix)]

\* What the tracker lists for state=open, labels=ISSUE_LABEL, sort=created asc.
IssueLists ==
  { <<>>,
    <<MkIssue(1, TRUE, TitleFix)>>,
    TenPulls \o <<MkIssue(11, FALSE, TitleFix)>>,
    <<MkIssue(1, TRUE, TitleFix), MkIssue(2, FALSE, TitleFix), MkIssue(3, FALSE, TitleDd)>>,
    <<MkIssue(1, FALSE, TitleDd), MkIssue(2, FALSE, TitleFix)>>,
    <<MkIssue(3, FALSE, TitleReboot)>> }

\* File contents the service writes: U+1F600 (a surrogate pair) and an unpaired
\* high surrogate.
Contents == { <<55357, 56832>>, <<55357>> }

CmdLs == <<"l","s">>
CmdReboot == <<"r","e","b","o","o","t">>

MkCall(name, path, content, cmd, cwd) ==
  [name |-> name, path |-> path, content |-> content, cmd |-> cmd, cwd |-> cwd]

ListFiles(dir) == MkCall("list_files", dir, <<>>, <<>>, <<>>)
ReadFile(file) == MkCall("read_file", file, <<>>, <<>>, <<>>)
WriteFile(file, content) == MkCall("write_file", file, content, <<>>, <<>>)
RunCmd(cmd, cwd) == MkCall("run", <<>>, <<>>, cmd, cwd)

\* No call yet, and more than one kind of response so far.
NoCall == MkCall("none", <<>>, <<>>, <<>>, <<>>)
MixedCalls == MkCall("mixed", <<>>, <<>>, <<>>, <<>>)

ToolCalls ==
  { ListFiles(<<".">>), ListFiles(<<"..">>), ListFiles(<<"nodir">>),
    ReadFile(<<"a.txt">>), ReadFile(<<"nofile">>),
    WriteFile(<<".">>, <<55357, 56832>>), WriteFile(<<"..", "x">>, <<55357, 56832>>),
    WriteFile(<<"sub", "b.txt">>, <<55357, 56832>>),
    RunCmd(CmdLs, <<>>), RunCmd(CmdLs, <<"sub">>), RunCmd(CmdReboot, <<>>) }
  \cup { WriteFile(<<"a.txt">>, c) : c \in Contents }

\* finalText of a response: none, a text, blanks only.
Texts == { <<>>, <<"o","k">>, <<" ">> }

\* Exit statuses a spawned command of the model can end with.
RunStatuses(cmd) == IF cmd = CmdLs THEN {0} ELSE {0, 1}

\* Sequences over S of length 1..n
RECURSIVE SeqsUpTo(_, _)
SeqsUpTo(S, n) ==
  IF n = 0 THEN {}
  ELSE { <<x>> : x \in S }
       \cup { Append(q, x) : q \in SeqsUpTo(S, n - 1), x \in S }

Min(a, b) == IF a < b THEN a ELSE b

\* ------------------------------------------------------- command texts

GitClone == <<"g","i","t"," ","c","l","o","n","e"," ">>
GitCheckout == <<"g","i","t"," ","c","h","e","c","k","o","u","t"," ">>
GitCheckoutB == <<"g","i","t"," ","c","h","e","c","k","o","u","t"," ","-","b"," ">>
BranchPrefix == <<"a","g","e","n","t","/","i","s","s","u","e","-">>
GitStatus == <<"g","i","t"," ","s","t","a","t","u","s"," ","-","-","p","o","r","c","e","l","a","i","n">>
GitAdd == <<"g","i","t"," ","a","d","d"," ","-","A">>
GitCommit == <<"g","i","t"," ","c","o","m","m","i","t"," ","-","m"," ","\"","F","i","x",":"," ","#">>
GitPush == <<"g","i","t"," ","p","u","s","h"," ","-","u"," ","o","r","i","g","i","n"," ">>

\* issueTitle.replace(/"/g, '\\"')
RECURSIVE EscapeQuotes(_)
EscapeQuotes(s) ==
  IF s = <<>> THEN <<>>
  ELSE (IF Head(s) = "\"" THEN <<"\\", "\"">> ELSE <<Head(s)>>) \o EscapeQuotes(Tail(s))

\* `git clone ${cloneUrl} ${repoDir}`
CloneCmd(i) == GitClone \o cloneUrl \o <<" ">> \o repoDirStr(i.number)
\* `git checkout ${env.DEFAULT_BASE_BRANCH}`
CheckoutCmd == GitCheckout \o BaseBranch
\* `agent/issue-${issueNumber}-${slug(issueTitle)}`
BranchName(i) == BranchPrefix \o NatToStr(i.number) \o <<"-">> \o slug(i.title)
\* `git checkout -b ${branch}`
CheckoutBCmd(i) == GitCheckoutB \o BranchName(i)
\* `git commit -m "Fix: #${issueNumber} ${issueTitle.replace(/"/g, '\\"')}"`
CommitCmd(i) ==
  GitCommit \o NatToStr(i.number) \o <<" ">> \o EscapeQuotes(i.title) \o <<"\"">>
\* `git push -u origin ${branch}`
PushCmd(i) == GitPush \o BranchName(i)

\* ------------------------------------------------------------------ state

VARIABLES
  pc,          \* where main is: Selecting, PollSleep, Cloning, ..., Exited
  issues,      \* what the tracker lists (the pipeline never changes it)
  issue,       \* the item of the current run
  files,       \* the disk: absolute path of a file -> its bytes
  dirs,        \* the disk: the directories
  step,        \* openaiLoop: step
  requests,    \* requests sent to the reasoning service in this run
  messages,    \* openaiLoop: messages
  toolCalls,   \* openaiLoop: toolCalls of the response being handled
  tcIdx,       \* openaiLoop: the next call of toolCalls to execute
  respText,    \* openaiLoop: finalText of the response being handled
  sent,        \* openaiLoop: `input: messages` of the latest request
  finalText,   \* main: finalText returned by openaiLoop
  varied,      \* free tool calls the service has chosen in this run
  repeating,   \* the call every response of this run has consisted of, if one
  onlyCalls,   \* every response of this run so far carried a tool call
  calls,       \* what main has invoked in this run, in order
  lastSpawn,   \* the latest safeRun: its arguments and what it returned
  lastAccess,  \* the latest file-system access of a tool call
  written,     \* absolute path -> content of the latest write_file to it in this run
  statusOut,   \* st.stdout: the paths git status --porcelain lists
  head,        \* the workspace's repository: the current branch and its start point
  failure,     \* why the process ended
  exitCode,    \* the process's exit status
  slugIn,      \* the title handed to slug
  slugOut      \* what slug returned

vars == <<pc, issues, issue, files, dirs, step, requests, messages, toolCalls, tcIdx,
          respText, sent, finalText, varied, repeating, onlyCalls, calls, lastSpawn,
          lastAccess, written, statusOut, head, failure, exitCode, slugIn, slugOut>>

loopVars == <<step, messages, toolCalls, tcIdx, respText, sent, varied, repeating>>
slugVars == <<slugIn, slugOut>>

NoSpawn == [cmd |-> <<>>, cwd |-> <<>>, spawned |-> FALSE, ok |-> FALSE, code |-> 0]
NoAccess == [op |-> "none", path |-> <<>>]
NoFiles == [p \in {} |-> <<>>]

NoResult ==
  [path |-> <<>>, items |-> {}, content |-> <<>>, bytes |-> 0,
   cmd |-> <<>>, ok |-> FALSE, code |-> 0, text |-> <<>>]

\* The repository of the workspace: the branch HEAD names and the branch that
\* one was created from; NoHead when there is no repository.
NoHead == [branch |-> <<>>, from |-> <<>>]
OnBranch(b, from) == [branch |-> b, from |-> from]

\* One turn of the conversation.  `content` stands for the text the code
\* stores (for a tool turn JSON.stringify(result)): the value it is made from.
Msg(role, name, content) == [role |-> role, name |-> name, content |-> content]

\* One invocation by main: a command through safeRun, or a tracker call.
Call(op, spawned, ok) == [op |-> op, spawned |-> spawned, ok |-> ok]

\* ------------------------------------------------------------------- disk

\* Without the rmSync: what is at dir stays.
RmFiles_keeps(f, dir) == f

\* fs.rmSync(dir, { recursive: true, force: true })
RmFiles(f, dir) == [p \in { q \in DOMAIN f : ~Inside(dir, q) } |-> f[p]]
RmDirs(d, dir) == { q \in d : ~Inside(dir, q) }

\* git clone into dir: the working tree and the .git directory
ClonedFiles(f, dir) ==
  [p \in DOMAIN f \cup { dir \o q : q \in DOMAIN RepoTree } |->
     IF \E q \in DOMAIN RepoTree : p = dir \o q
     THEN RepoTree[CHOOSE q \in DOMAIN RepoTree : p = dir \o q]
     ELSE f[p]]
ClonedDirs(d, dir) == d \cup {dir, dir \o <<".git">>}

\* fs.readdirSync(abs, { withFileTypes: true }) mapped to {name, type}
Readdir(f, d, abs) ==
  { [name |-> p[Len(p)], type |-> "file"] : p \in { q \in DOMAIN f : dirname(q) = abs /\ q # <<>> } }
  \cup { [name |-> p[Len(p)], type |-> "dir"] : p \in { q \in d : q # <<>> /\ dirname(q) = abs } }

\* Whether mkdirSync(dirname(abs), recursive) and writeFileSync(abs) succeed:
\* abs is no directory and no directory on the way to it is a file.
CanWrite(f, d, abs) ==
  /\ abs # <<>>
  /\ abs \notin d
  /\ \A k \in 1..(Len(abs) - 1) : SubSeq(abs, 1, k) \notin DOMAIN f

\* fs.mkdirSync(path.dirname(abs), { recursive: true })
MkdirP(d, dir) == d \cup { SubSeq(dir, 1, k) : k \in 0..Len(dir) }

\* fs.appendFileSync in place of fs.writeFileSync: an existing file grows.
WriteBytes_appends(f, abs, content) ==
  [p \in DOMAIN f \cup {abs} |->
     IF p = abs
     THEN (IF abs \in DOMAIN f THEN f[abs] ELSE <<>>) \o utf8Encode(content)
     ELSE f[p]]

\* fs.writeFileSync(abs, content, "utf8")
WriteBytes(f, abs, content) ==
  [p \in DOMAIN f \cup {abs} |-> IF p = abs THEN utf8Encode(content) ELSE f[p]]

\* git status --porcelain in dir: the paths of the working tree (not .git)
\* that differ from the checked-out tree.
GitStatusOut(f, dir) ==
  { q \in DOMAIN RepoTree : dir \o q \notin DOMAIN f \/ f[dir \o q] # RepoTree[q] }
  \cup { SubSeq(p, Len(dir) + 1, Len(p)) :
           p \in { r \in DOMAIN f : /\ Inside(dir, r)
                                    /\ ~Inside(dir \o <<".git">>, r)
                                    /\ SubSeq(r, Len(dir) + 1, Len(r)) \notin DOMAIN RepoTree } }

\* The test the wrong way round: st.stdout.trim() without the "!".
StatusIsEmpty_inverted(out) == out # {}

\* !st.stdout.trim()
StatusIsEmpty(out) == out = {}

\* --------------------------------------------------------- process exits

\* die without process.exit: the run is dropped and main polls again.
die_continues(kind) == pc' = "Selecting" /\ failure' = kind /\ exitCode' = exitCode

\* die that only logs: main goes on with the statement after the call.
die_noExit(kind) ==
  /\ pc' = (IF kind = "clone" THEN "CheckoutBase" ELSE "CreatePR")
  /\ failure' = kind
  /\ exitCode' = exitCode

\* die(msg): console.error, process.exit(1)
die(kind) == pc' = "Exited" /\ failure' = kind /\ exitCode' = ExitFailure

\* main().catch(e => { console.error(e); process.exit(1) })
uncaught(kind) == pc' = "Exited" /\ failure' = kind /\ exitCode' = ExitFailure

\* The locals of openaiLoop, which end with the call.
LoopGone ==
  /\ step' = 0
  /\ messages' = <<>>
  /\ toolCalls' = <<>>
  /\ tcIdx' = 0
  /\ respText' = <<>>
  /\ sent' = <<>>
  /\ varied' = 0
  /\ repeating' = NoCall

\* ------------------------------------------------------------------- main

\* per_page: 10
PerPage == 10

\* issues.data.find(i => !i.pull_request) of the page the tracker returns
Eligible(list) == { k \in 1..Len(Slice0(list, PerPage)) : ~list[k].pull_request }
\* The last of them in place of the first.
FirstEligible_youngest(list) ==
  list[CHOOSE k \in Eligible(list) : \A j \in Eligible(list) : k >= j]

FirstEligible(list) == list[CHOOSE k \in Eligible(list) : \A j \in Eligible(list) : k <= j]

\* await octokit.issues.listForRepo(...), then the find; with an issue found,
\* up to fs.rmSync(repoDir).
Select ==
  /\ pc = "Selecting"
  /\ \/ /\ uncaught("tracker")
        /\ UNCHANGED <<issue, files, dirs, requests, onlyCalls, calls, lastSpawn,
                       lastAccess, written, statusOut, head, finalText>>
     \/ /\ Eligible(issues) = {}
        /\ pc' = "PollSleep"
        /\ UNCHANGED <<issue, files, dirs, requests, onlyCalls, calls, lastSpawn,
                       lastAccess, written, statusOut, head, finalText, failure,
                       exitCode>>
     \/ /\ Eligible(issues) # {}
        /\ issue' = FirstEligible(issues)
        /\ files' = RmFiles(files, repoDir(issue'.number))
        /\ dirs' = RmDirs(dirs, repoDir(issue'.number))
        /\ requests' = 0
        /\ onlyCalls' = TRUE
        /\ calls' = <<>>
        /\ lastSpawn' = NoSpawn
        /\ lastAccess' = NoAccess
        /\ written' = NoFiles
        /\ statusOut' = {}
        /\ head' = NoHead
        /\ finalText' = <<>>
        /\ pc' = "Cloning"
        /\ UNCHANGED <<failure, exitCode>>
  /\ UNCHANGED <<issues, loopVars, slugVars>>

\* await new Promise(r => setTimeout(r, env.POLL_INTERVAL_SECONDS * 1000)); continue
PollWake ==
  /\ pc = "PollSleep"
  /\ pc' = "Selecting"
  /\ UNCHANGED <<issues, issue, files, dirs, loopVars, requests, onlyCalls, calls,
                 lastSpawn, lastAccess, written, statusOut, finalText, failure,
                 exitCode, head, slugVars>>

\* const r1 = safeRun(`git clone ...`, workRoot); if (!r1.ok) die(...)
Clone ==
  /\ pc = "Cloning"
  /\ \E status \in {0, 128, NullStatus} :
       LET r == safeRun(CloneCmd(issue), workRootStr, status) IN
       /\ lastSpawn' = r
       /\ calls' = Append(calls, Call("clone", r.spawned, r.ok))
       /\ IF r.ok
          THEN /\ files' = ClonedFiles(files, repoDir(issue.number))
               /\ dirs' = ClonedDirs(dirs, repoDir(issue.number))
               /\ head' = OnBranch(RemoteHead, <<>>)
               /\ pc' = "CheckoutBase"
               /\ UNCHANGED <<failure, exitCode>>
          ELSE /\ die("clone")
               /\ UNCHANGED <<files, dirs, head>>
  /\ UNCHANGED <<issues, issue, loopVars, requests, onlyCalls, lastAccess, written,
                 statusOut, finalText, slugVars>>

\* safeRun(`git checkout ${env.DEFAULT_BASE_BRANCH}`, repoDir)
CheckoutBase ==
  /\ pc = "CheckoutBase"
  /\ LET r == safeRun(CheckoutCmd, repoDirStr(issue.number), 0) IN
       /\ lastSpawn' = r
       /\ calls' = Append(calls, Call("checkout", r.spawned, r.ok))
       /\ head' = IF r.ok THEN OnBranch(BaseBranch, <<>>) ELSE head
  /\ pc' = "CheckoutBranch"
  /\ UNCHANGED <<issues, issue, files, dirs, loopVars, requests, onlyCalls, lastAccess,
                 written, statusOut, finalText, failure, exitCode, slugVars>>

\* safeRun(`git checkout -b ${branch}`, repoDir)
CheckoutBranch ==
  /\ pc = "CheckoutBranch"
  /\ LET r == safeRun(CheckoutBCmd(issue), repoDirStr(issue.number), 0) IN
       /\ lastSpawn' = r
       /\ calls' = Append(calls, Call("checkout -b", r.spawned, r.ok))
       /\ head' = IF r.ok THEN OnBranch(BranchName(issue), head.branch) ELSE head
  /\ pc' = "LoopStart"
  /\ UNCHANGED <<issues, issue, files, dirs, loopVars, requests, onlyCalls, lastAccess,
                 written, statusOut, finalText, failure, exitCode, slugVars>>

\* ------------------------------------------------------------- openaiLoop

\* The responses with tool calls the reasoning service may give after `v` free
\* tool calls, `rep` being the call it has repeated so far.
ToolResponses(v, rep) ==
  IF v < MaxVaried
  THEN { [calls |-> cs, text |-> t] :
           cs \in SeqsUpTo(ToolCalls, Min(MaxCalls, MaxVaried - v)), t \in Texts }
  ELSE IF rep \in ToolCalls THEN { [calls |-> <<rep>>, text |-> <<>>] } ELSE {}

\* The call the service is repeating, after one more response.
Repeating(rep, r) ==
  IF Len(r.calls) = 1 /\ r.text = <<>> /\ rep \in {NoCall, r.calls[1]}
  THEN r.calls[1]
  ELSE MixedCalls

\* openaiLoop up to its first fetch: detectStack, the system and user turns.
LoopStart ==
  /\ pc = "LoopStart"
  /\ messages' = << Msg("system", "", NoResult),
                    Msg("user", "", [NoResult EXCEPT !.text = issue.title]) >>
  /\ sent' = messages'
  /\ step' = 0
  /\ requests' = 1
  /\ pc' = "Requesting"
  /\ UNCHANGED <<issues, issue, files, dirs, toolCalls, tcIdx, respText, varied,
                 repeating, onlyCalls, calls, lastSpawn, lastAccess, written, statusOut,
                 finalText, failure, exitCode, head, slugVars>>

\* The response arrives: if (!resp.ok) throw; toolCalls; finalText;
\* if (toolCalls.length === 0) return { finalText }.
Respond ==
  /\ pc = "Requesting"
  /\ \/ /\ uncaught("openai")
        /\ LoopGone
        /\ onlyCalls' = FALSE
        /\ UNCHANGED finalText
     \/ /\ \E t \in Texts : finalText' = t
        /\ LoopGone
        /\ onlyCalls' = FALSE
        /\ pc' = "Status"
        /\ UNCHANGED <<failure, exitCode>>
     \/ /\ \E r \in ToolResponses(varied, repeating) :
             /\ toolCalls' = r.calls
             /\ respText' = r.text
             /\ varied' = Min(varied + Len(r.calls), MaxVaried)
             /\ repeating' = Repeating(repeating, r)
        /\ tcIdx' = 1
        /\ pc' = "Dispatching"
        /\ UNCHANGED <<step, messages, sent, onlyCalls, finalText, failure, exitCode>>
  /\ UNCHANGED <<issues, issue, files, dirs, requests, calls, lastSpawn, lastAccess,
                 written, statusOut, head, slugVars>>

\* messages.unshift in place of messages.push: the turn goes to the front.
PushResult_front(result) ==
  /\ messages' = <<Msg("tool", toolCalls[tcIdx].name, result)>> \o messages
  /\ tcIdx' = tcIdx + 1
  /\ UNCHANGED <<pc, step, toolCalls, respText, sent, varied, repeating, failure,
                 exitCode>>

\* messages.push({ role: "tool", name: tc.name, content: JSON.stringify(result) })
PushResult(result) ==
  /\ messages' = Append(messages, Msg("tool", toolCalls[tcIdx].name, result))
  /\ tcIdx' = tcIdx + 1
  /\ UNCHANGED <<pc, step, toolCalls, respText, sent, varied, repeating, failure,
                 exitCode>>

\* An exception of a file-system call: nothing in openaiLoop or main catches it.
Throw == uncaught("tool") /\ LoopGone

\* if (tc.name === "list_files") { ... }
ExecListFiles ==
  /\ pc = "Dispatching"
  /\ tcIdx <= Len(toolCalls)
  /\ toolCalls[tcIdx].name = "list_files"
  /\ LET dir == toolCalls[tcIdx].path
         abs == pathJoin(repoDir(issue.number), dir)
     IN  /\ lastAccess' = [op |-> "list_files", path |-> abs]
         /\ IF abs \in dirs
            THEN PushResult([NoResult EXCEPT !.path = dir, !.items = Readdir(files, dirs, abs)])
            ELSE Throw
  /\ UNCHANGED <<issues, issue, files, dirs, requests, onlyCalls, calls, lastSpawn,
                 written, statusOut, finalText, head, slugVars>>

\* if (tc.name === "read_file") { ... }
ExecReadFile ==
  /\ pc = "Dispatching"
  /\ tcIdx <= Len(toolCalls)
  /\ toolCalls[tcIdx].name = "read_file"
  /\ LET file == toolCalls[tcIdx].path
         abs == pathJoin(repoDir(issue.number), file)
     IN  /\ lastAccess' = [op |-> "read_file", path |-> abs]
         /\ IF abs \in DOMAIN files
            THEN PushResult([NoResult EXCEPT !.path = file, !.content = utf8Decode(files[abs])])
            ELSE Throw
  /\ UNCHANGED <<issues, issue, files, dirs, requests, onlyCalls, calls, lastSpawn,
                 written, statusOut, finalText, head, slugVars>>

\* if (tc.name === "write_file") { ... }
ExecWriteFile ==
  /\ pc = "Dispatching"
  /\ tcIdx <= Len(toolCalls)
  /\ toolCalls[tcIdx].name = "write_file"
  /\ LET file == toolCalls[tcIdx].path
         content == toolCalls[tcIdx].content
         abs == pathJoin(repoDir(issue.number), file)
     IN  /\ lastAccess' = [op |-> "write_file", path |-> abs]
         /\ IF CanWrite(files, dirs, abs)
            THEN /\ dirs' = MkdirP(dirs, dirname(abs))
                 /\ files' = WriteBytes(files, abs, content)
                 /\ written' = [p \in DOMAIN written \cup {abs} |->
                                  IF p = abs THEN content ELSE written[p]]
                 /\ PushResult([NoResult EXCEPT !.path = file, !.bytes = byteLength(content)])
            ELSE /\ Throw
                 /\ UNCHANGED <<files, dirs, written>>
  /\ UNCHANGED <<issues, issue, requests, onlyCalls, calls, lastSpawn, statusOut,
                 finalText, head, slugVars>>

\* if (tc.name === "run") { const r = safeRun(cmd, repoDir); ... }
ExecRun ==
  /\ pc = "Dispatching"
  /\ tcIdx <= Len(toolCalls)
  /\ toolCalls[tcIdx].name = "run"
  /\ \E status \in RunStatuses(toolCalls[tcIdx].cmd) :
       LET r == safeRun(toolCalls[tcIdx].cmd, repoDirStr(issue.number), status) IN
       /\ lastSpawn' = r
       /\ PushResult([NoResult EXCEPT !.cmd = r.cmd, !.ok = r.ok, !.code = r.code])
  /\ UNCHANGED <<issues, issue, files, dirs, requests, onlyCalls, calls, lastAccess,
                 written, statusOut, finalText, head, slugVars>>

\* After the last tool call: the assistant turn, step++, and either the next
\* fetch or throw new Error("OpenAI loop exceeded max steps.").
EndStep ==
  /\ pc = "Dispatching"
  /\ tcIdx > Len(toolCalls)
  /\ IF step + 1 < MaxSteps
     THEN /\ messages' = IF Trim(respText) # <<>>
                         THEN Append(messages,
                                     Msg("assistant", "", [NoResult EXCEPT !.text = respText]))
                         ELSE messages
          /\ sent' = messages'
          /\ step' = step + 1
          /\ requests' = requests + 1
          /\ toolCalls' = <<>>
          /\ tcIdx' = 0
          /\ respText' = <<>>
          /\ pc' = "Requesting"
          /\ UNCHANGED <<varied, repeating, failure, exitCode>>
     ELSE /\ uncaught("budget")
          /\ LoopGone
          /\ UNCHANGED requests
  /\ UNCHANGED <<issues, issue, files, dirs, onlyCalls, calls, lastSpawn, lastAccess,
                 written, statusOut, finalText, head, slugVars>>

\* ------------------------------------------------------ main, after the loop

\* const st = safeRun("git status --porcelain", repoDir); if (!st.stdout.trim())
Status ==
  /\ pc = "Status"
  /\ LET r == safeRun(GitStatus, repoDirStr(issue.number), 0)
         out == IF r.spawned THEN GitStatusOut(files, repoDir(issue.number)) ELSE {}
     IN  /\ lastSpawn' = r
         /\ statusOut' = out
         /\ calls' = Append(calls, Call("status", r.spawned, r.ok))
         /\ pc' = IF StatusIsEmpty(out) THEN "NoChangeComment" ELSE "Add"
  /\ UNCHANGED <<issues, issue, files, dirs, loopVars, requests, onlyCalls, lastAccess,
                 written, finalText, failure, exitCode, head, slugVars>>

\* A call of the tracker: it returns, or it throws and main().catch ends the process.
TrackerCall(op, next) ==
  \/ /\ calls' = Append(calls, Call(op, TRUE, TRUE))
     /\ pc' = next
     /\ UNCHANGED <<failure, exitCode>>
  \/ /\ calls' = Append(calls, Call(op, TRUE, FALSE))
     /\ uncaught("tracker")

\* await octokit.issues.createComment({ ... "I couldn't produce any changes" ... })
NoChangeComment ==
  /\ pc = "NoChangeComment"
  /\ TrackerCall("createComment", "RunSleep")
  /\ UNCHANGED <<issues, issue, files, dirs, loopVars, requests, onlyCalls, lastSpawn,
                 lastAccess, written, statusOut, finalText, head, slugVars>>

\* safeRun(`git add -A`, repoDir)
Add ==
  /\ pc = "Add"
  /\ LET r == safeRun(GitAdd, repoDirStr(issue.number), 0) IN
       /\ lastSpawn' = r
       /\ calls' = Append(calls, Call("add", r.spawned, r.ok))
  /\ pc' = "Commit"
  /\ UNCHANGED <<issues, issue, files, dirs, loopVars, requests, onlyCalls, lastAccess,
                 written, statusOut, finalText, failure, exitCode, head, slugVars>>

\* safeRun(`git commit -m "Fix: #..."`, repoDir); git commit ends with 128 when
\* it cannot tell who the committer is.
Commit ==
  /\ pc = "Commit"
  /\ \E status \in {0, 128} :
       LET r == safeRun(CommitCmd(issue), repoDirStr(issue.number), status) IN
       /\ lastSpawn' = r
       /\ calls' = Append(calls, Call("commit", r.spawned, r.ok))
  /\ pc' = "Push"
  /\ UNCHANGED <<issues, issue, files, dirs, loopVars, requests, onlyCalls, lastAccess,
                 written, statusOut, finalText, failure, exitCode, head, slugVars>>

\* const push = safeRun(`git push -u origin ${branch}`, repoDir); if (!push.ok) die(...)
Push ==
  /\ pc = "Push"
  /\ \E status \in {0, 1} :
       LET r == safeRun(PushCmd(issue), repoDirStr(issue.number), status) IN
       /\ lastSpawn' = r
       /\ calls' = Append(calls, Call("push", r.spawned, r.ok))
       /\ IF r.ok
          THEN pc' = "CreatePR" /\ UNCHANGED <<failure, exitCode>>
          ELSE die("push")
  /\ UNCHANGED <<issues, issue, files, dirs, loopVars, requests, onlyCalls, lastAccess,
                 written, statusOut, finalText, head, slugVars>>

\* const pr = await octokit.pulls.create({ ... })
CreatePR ==
  /\ pc = "CreatePR"
  /\ TrackerCall("pulls.create", "PRComment")
  /\ UNCHANGED <<issues, issue, files, dirs, loopVars, requests, onlyCalls, lastSpawn,
                 lastAccess, written, statusOut, finalText, head, slugVars>>

\* await octokit.issues.createComment({ ... `Opened PR: ...` ... })
PRComment ==
  /\ pc = "PRComment"
  /\ TrackerCall("createComment", "RunSleep")
  /\ UNCHANGED <<issues, issue, files, dirs, loopVars, requests, onlyCalls, lastSpawn,
                 lastAccess, written, statusOut, finalText, head, slugVars>>

\* The process ending after the sleep in place of the while loop going round.
RunSleep_exits ==
  /\ pc = "RunSleep"
  /\ pc' = "Exited"
  /\ UNCHANGED <<issues, issue, files, dirs, loopVars, requests, onlyCalls, calls,
                 lastSpawn, lastAccess, written, statusOut, finalText, failure,
                 exitCode, head, slugVars>>

\* await new Promise(r => setTimeout(r, 2000)), and the while loop goes round
RunSleep ==
  /\ pc = "RunSleep"
  /\ pc' = "Selecting"
  /\ UNCHANGED <<issues, issue, files, dirs, loopVars, requests, onlyCalls, calls,
                 lastSpawn, lastAccess, written, statusOut, finalText, failure,
                 exitCode, head, slugVars>>

\* ---------------------------------------------------------- specification

\* The state main's while loop is entered in, for a tracker list `l`.
Start(l) ==
  /\ issues = l
  /\ issue = NoIssue
  /\ files = NoFiles
  /\ dirs = {<<>>, workRoot}
  /\ step = 0
  /\ requests = 0
  /\ messages = <<>>
  /\ toolCalls = <<>>
  /\ tcIdx = 0
  /\ respText = <<>>
  /\ sent = <<>>
  /\ finalText = <<>>
  /\ varied = 0
  /\ repeating = NoCall
  /\ onlyCalls = TRUE
  /\ calls = <<>>
  /\ lastSpawn = NoSpawn
  /\ lastAccess = NoAccess
  /\ written = NoFiles
  /\ statusOut = {}
  /\ head = NoHead
  /\ failure = "none"
  /\ exitCode = 0

Init ==
  /\ pc = "Selecting"
  /\ \E l \in IssueLists : Start(l)
  /\ slugIn = <<>>
  /\ slugOut = <<>>

Next ==
  \/ Select
  \/ PollWake
  \/ Clone
  \/ CheckoutBase
  \/ CheckoutBranch
  \/ LoopStart
  \/ Respond
  \/ ExecListFiles
  \/ ExecReadFile
  \/ ExecWriteFile
  \/ ExecRun
  \/ EndStep
  \/ Status
  \/ NoChangeComment
  \/ Add
  \/ Commit
  \/ Push
  \/ CreatePR
  \/ PRComment
  \/ RunSleep

Spec == Init /\ [][Next]_vars

\* The timer of the sleep after a run fires: setTimeout(r, 2000) resolves.
LiveSpec == Init /\ [][Next]_vars /\ WF_vars(RunSleep)

\* ------------------------------------------------- slug on its own inputs

TailChars == {"a", "B", "1", " ", "-", "!", "É"}

RECURSIVE Repeat(_, _)
Repeat(c, k) == IF k = 0 THEN <<>> ELSE <<c>> \o Repeat(c, k - 1)

SlugTitles ==
  { Repeat("a", k) \o t : k \in 0..MaxPrefix,
                          t \in {<<>>} \cup SeqsUpTo(TailChars, MaxTail) }

SlugInit ==
  /\ pc = "SlugCall"
  /\ Start(<<>>)
  /\ slugIn \in SlugTitles
  /\ slugOut = <<>>

\* slug(issueTitle)
SlugReturn ==
  /\ pc = "SlugCall"
  /\ slugOut' = slug(slugIn)
  /\ pc' = "SlugDone"
  /\ UNCHANGED <<issues, issue, files, dirs, loopVars, requests, onlyCalls, calls,
                 lastSpawn, lastAccess, written, statusOut, finalText, failure,
                 exitCode, head, slugIn>>

SlugNext == SlugReturn

SlugSpec == SlugInit /\ [][SlugNext]_vars

\* ------------------------------------------------------------- the claims

\* The operations main has invoked in this run, by name.
HasOp(op) == \E k \in 1..Len(calls) : calls[k].op = op
CountOp(op) == Cardinality({ k \in 1..Len(calls) : calls[k].op = op })

\* openaiLoop has been called in this run and has ended.
LoopEnded == requests > 0 /\ pc \notin {"Requesting", "Dispatching"}

\* C1: openaiLoop never sends more than 30 requests in one run, and when every
\* response carried at least one tool call it ends by the step budget
\* ("OpenAI loop exceeded max steps") after exactly 30 requests.
C1_BudgetAtExactly30 ==
  /\ requests <= MaxSteps
  /\ (LoopEnded /\ onlyCalls) => (failure = "budget" /\ requests = MaxSteps)

\* C2: a tool call whose file-system operation fails (a missing directory, a
\* missing file, a path that cannot be written) never ends the run: no process
\* exit comes from a tool call.
C2_ToolFailureNeverAborts == failure # "tool"

\* The failures the spec calls fatal to the run.
FatalKinds == {"clone", "push", "openai", "budget"}

\* C3, as claimed: after a fatal-run failure only the run is aborted, the
\* pipeline keeps running (it has not exited) and goes on to the next cycle.
C3_FatalFailureKeepsPolling == failure \in FatalKinds => pc # "Exited"

\* C3, amended: a fatal-run failure ends the process with exit status 1, the
\* process never selects again, and the item is still the one the tracker
\* lists first (the pipeline has not touched it).
C3_FatalFailureEndsProcess ==
  /\ [](failure \in FatalKinds =>
          /\ pc = "Exited"
          /\ exitCode = ExitFailure
          /\ Eligible(issues) # {}
          /\ FirstEligible(issues) = issue)
  /\ [][pc = "Exited" => pc' = "Exited"]_vars

C3_Witness == failure = "budget" /\ pc = "Exited" /\ requests = MaxSteps

\* C4: when the loop has completed and git status lists nothing, the run
\* takes the no-change path: one createComment and, in that run, no git add,
\* git commit, git push or pulls.create.
C4_NoChangeNeverPublishes ==
  (HasOp("status") /\ statusOut = {}) =>
    /\ pc \in {"NoChangeComment", "RunSleep", "Selecting", "Exited"}
    /\ \A op \in {"add", "commit", "push", "pulls.create"} : ~HasOp(op)
    /\ CountOp("createComment") = IF pc = "NoChangeComment" THEN 0 ELSE 1

C4_Witness ==
  /\ pc = "RunSleep"
  /\ HasOp("status")
  /\ statusOut = {}
  /\ CountOp("createComment") = 1

\* What a run has produced: the commits made, the pushes done and the change
\* requests asked for, in order.
Produced ==
  LET done == SelectSeq(calls, LAMBDA c : c.op \in {"commit", "push", "pulls.create"}
                                          /\ c.spawned
                                          /\ (c.op = "pulls.create" \/ c.ok))
  IN  [k \in 1..Len(done) |-> done[k].op]

\* C5: a run whose loop completed with at least one modified file and that
\* ran to its end has produced exactly one commit, then one push, then one
\* change-request creation call.
C5_OneCommitPushRequest ==
  (pc = "RunSleep" /\ HasOp("status") /\ statusOut # {}) =>
    Produced = <<"commit", "push", "pulls.create">>

\* C6: a command containing a deny-listed substring is refused by safeRun
\* (ok = false, code 126) without a child being spawned, and a child is
\* spawned only for a command containing none.
C6_DenyListedNeverSpawned ==
  lastSpawn # NoSpawn =>
    /\ (\E f \in forbidden : Includes(lastSpawn.cmd, f)) =>
         (~lastSpawn.spawned /\ ~lastSpawn.ok /\ lastSpawn.code = ForbiddenCode)
    /\ lastSpawn.spawned => ~(\E f \in forbidden : Includes(lastSpawn.cmd, f))

C6_Witness ==
  /\ lastSpawn # NoSpawn
  /\ \E f \in forbidden : Includes(lastSpawn.cmd, f)
  /\ ~lastSpawn.spawned

\* The absolute path a tool call names.
AbsOf(tc) == pathJoin(repoDir(issue.number), tc.path)

\* C7: the tool calls of one response are applied one after the other in the
\* listed order: once the first k calls are executed, each file they wrote
\* holds the content of the latest of them that wrote it.
C7_CallsAppliedInOrder ==
  pc = "Dispatching" =>
    \A i \in 1..(tcIdx - 1) :
      (/\ toolCalls[i].name = "write_file"
       /\ \A j \in (i + 1)..(tcIdx - 1) :
            ~(toolCalls[j].name = "write_file" /\ AbsOf(toolCalls[j]) = AbsOf(toolCalls[i])))
      => /\ AbsOf(toolCalls[i]) \in DOMAIN files
         /\ files[AbsOf(toolCalls[i])] = utf8Encode(toolCalls[i].content)

C7_Witness ==
  /\ pc = "Dispatching"
  /\ tcIdx = 3
  /\ toolCalls[1].name = "write_file"
  /\ toolCalls[2].name = "write_file"
  /\ toolCalls[1].path = toolCalls[2].path
  /\ toolCalls[1].content # toolCalls[2].content

\* A read_file has just been executed on a path that a write_file of this run
\* wrote before.
JustReadWritten ==
  /\ pc = "Dispatching"
  /\ tcIdx > 1
  /\ toolCalls[tcIdx - 1].name = "read_file"
  /\ AbsOf(toolCalls[tcIdx - 1]) \in DOMAIN written

\* The content the latest read_file returned.
ReadContent == messages[Len(messages)].content.content

\* No surrogate code unit without its partner.
RECURSIVE WellFormed(_)
WellFormed(s) ==
  IF s = <<>> THEN TRUE
  ELSE IF IsHigh(s[1]) THEN Len(s) >= 2 /\ IsLow(s[2]) /\ WellFormed(SubSeq(s, 3, Len(s)))
  ELSE ~IsLow(s[1]) /\ WellFormed(Tail(s))

\* s with every unpaired surrogate replaced by U+FFFD.
RECURSIVE ReplaceLone(_)
ReplaceLone(s) ==
  IF s = <<>> THEN <<>>
  ELSE IF IsHigh(s[1]) /\ Len(s) >= 2 /\ IsLow(s[2])
    THEN <<s[1], s[2]>> \o ReplaceLone(SubSeq(s, 3, Len(s)))
  ELSE IF IsHigh(s[1]) \/ IsLow(s[1]) THEN <<Replacement>> \o ReplaceLone(Tail(s))
  ELSE <<s[1]>> \o ReplaceLone(Tail(s))

\* C8, as claimed: a read_file after a write_file to the same path, with no
\* write to it in between, returns exactly the content that was written.
C8_ReadReturnsWritten ==
  JustReadWritten => ReadContent = written[AbsOf(toolCalls[tcIdx - 1])]

\* C8, amended: it returns exactly the content written when that content has
\* no unpaired surrogate; an unpaired surrogate comes back as U+FFFD.
C8_ReadReturnsWellFormedWritten ==
  JustReadWritten =>
    LET c == written[AbsOf(toolCalls[tcIdx - 1])] IN
    /\ WellFormed(c) => ReadContent = c
    /\ ReadContent = ReplaceLone(c)

C8_Witness ==
  /\ JustReadWritten
  /\ WellFormed(written[AbsOf(toolCalls[tcIdx - 1])])
  /\ ReadContent = written[AbsOf(toolCalls[tcIdx - 1])]
  /\ Len(ReadContent) = 2

\* C9: slug(title) has at most 40 characters, all of them small letters,
\* digits or hyphens, no two hyphens in a row (a run of other characters makes
\* one hyphen), and no hyphen at its start or end.
C9_SlugShape ==
  pc = "SlugDone" =>
    /\ Len(slugOut) <= SlugCap
    /\ \A k \in 1..Len(slugOut) : IsAlnum(slugOut[k]) \/ slugOut[k] = "-"
    /\ \A k \in 1..(Len(slugOut) - 1) : ~(slugOut[k] = "-" /\ slugOut[k + 1] = "-")
    /\ slugOut # <<>> => (slugOut[1] # "-" /\ slugOut[Len(slugOut)] # "-")

\* C10: every path a list_files, read_file or write_file call accesses lies
\* inside the workspace root of the run.
C10_AccessInsideWorkspace ==
  lastAccess.op # "none" => Inside(repoDir(issue.number), lastAccess.path)

\* What publishes: a commit, a push, a change request, a comment.
PublishOps == {"commit", "push", "pulls.create", "createComment"}

\* C11: after a fatal-run failure nothing is published and the item is left
\* as it was.  When clone fails or the loop fails (non-success response, budget
\* exhausted) the run has made no commit, push, change request or comment;
\* when push fails the failed push is the last thing the run did, with no
\* change request and no comment; and after any of these failures main invokes
\* nothing more and the tracker's list is unchanged.
C11_NothingPublishedAfterFatalFailure ==
  /\ [](failure \in {"clone", "openai", "budget"} => \A op \in PublishOps : ~HasOp(op))
  /\ [](failure = "push" =>
          /\ calls # <<>>
          /\ calls[Len(calls)].op = "push"
          /\ ~calls[Len(calls)].ok
          /\ CountOp("push") = 1
          /\ ~HasOp("pulls.create")
          /\ ~HasOp("createComment"))
  /\ [][(failure \in FatalKinds) => calls' = calls]_vars
  /\ [][(failure \in FatalKinds) => issues' = issues]_vars

C11_Witness ==
  /\ failure = "push"
  /\ pc = "Exited"
  /\ HasOp("commit")
  /\ calls[Len(calls)].op = "push"

\* The turn messages[k] is the tool turn of the call tc: it carries the call's
\* name and the result of that call.
IsTurnOf(k, tc) ==
  /\ messages[k].role = "tool"
  /\ messages[k].name = tc.name
  /\ IF tc.name = "run"
     THEN messages[k].content.cmd = tc.cmd
     ELSE messages[k].content.path = tc.path

\* While a response is handled the conversation is what the request carried
\* followed by one tool turn per executed call, in the listed order.
TurnsInOrder ==
  pc = "Dispatching" =>
    /\ Len(messages) = Len(sent) + tcIdx - 1
    /\ SubSeq(messages, 1, Len(sent)) = sent
    /\ \A i \in 1..(tcIdx - 1) : IsTurnOf(Len(sent) + i, toolCalls[i])

\* The step from the last tool call to the next request.
NextRequest == pc = "Dispatching" /\ pc' = "Requesting"

\* The next request carries every turn of the step: all calls are executed,
\* and the response's text, when `withText`, is the one turn after them.
RequestCarries(withText) ==
  /\ tcIdx = Len(toolCalls) + 1
  /\ sent' = messages'
  /\ messages' = IF withText
                 THEN Append(messages, Msg("assistant", "", [NoResult EXCEPT !.text = respText]))
                 ELSE messages

\* C12, as claimed: one tool turn per call in the listed order, all before the
\* next request; a response's final text, whenever there is one, is appended
\* as an assistant turn after them; earlier turns are kept in place.
C12_TextAlwaysAppended ==
  /\ []TurnsInOrder
  /\ [][NextRequest => RequestCarries(respText # <<>>)]_vars
  /\ [][(pc' \in {"Requesting", "Dispatching"} /\ pc # "LoopStart")
          => IsPrefix(messages, messages')]_vars

\* C12, amended: the same, with the final text appended only when it is not
\* blank (it has a character that is no white space).
C12_NonBlankTextAppended ==
  /\ []TurnsInOrder
  /\ [][NextRequest => RequestCarries(Trim(respText) # <<>>)]_vars
  /\ [][(pc' \in {"Requesting", "Dispatching"} /\ pc # "LoopStart")
          => IsPrefix(messages, messages')]_vars

C12_Witness ==
  /\ pc = "Requesting"
  /\ Len(sent) = 5
  /\ sent[3].role = "tool"
  /\ sent[4].role = "tool"
  /\ sent[3].name # sent[4].name
  /\ sent[5].role = "assistant"
  /\ sent[5].content.text = <<"o", "k">>

\* The open labelled items that are no pull request, by position in the
\* tracker's list (oldest first).
Issues(list) == { k \in 1..Len(list) : ~list[k].pull_request }

\* main is working on an item.
InRun == pc \notin {"Selecting", "PollSleep", "Exited", "SlugCall", "SlugDone"}

\* C13: whenever an open labelled item that is no pull request exists, the
\* pipeline selects the oldest of them; it waits the poll interval only when
\* there is none.
C13_SelectsOldestEligible ==
  /\ pc = "PollSleep" => Issues(issues) = {}
  /\ InRun =>
       /\ Issues(issues) # {}
       /\ \E k \in Issues(issues) :
            /\ issue = issues[k]
            /\ \A j \in Issues(issues) : k <= j

\* The text of a relative path of the inputs, with a "/" before each segment.
SegChars == [seg \in {"sub"} |-> <<"s", "u", "b">>]

RECURSIVE PathText(_)
PathText(p) ==
  IF p = <<>> THEN <<>> ELSE <<"/">> \o SegChars[Head(p)] \o PathText(Tail(p))

\* A run call has just been executed.
JustRan == pc = "Dispatching" /\ tcIdx > 1 /\ toolCalls[tcIdx - 1].name = "run"

\* C14: the run tool executes its command in the workspace root when the
\* call has no cwd argument, and in that subdirectory of the workspace when it
\* has one.
C14_RunInGivenDirectory ==
  JustRan =>
    /\ lastSpawn.cmd = toolCalls[tcIdx - 1].cmd
    /\ lastSpawn.cwd = repoDirStr(issue.number) \o PathText(toolCalls[tcIdx - 1].cwd)

\* The part of a path below dir.
Below(dir, p) == SubSeq(p, Len(dir) + 1, Len(p))

\* C15: whenever openaiLoop is invoked, the run has removed and cloned the
\* workspace directory before, and the directory holds the cloned tree and
\* nothing else: no file or directory an earlier run left at the same path.
C15_LoopStartsOnFreshClone ==
  pc = "LoopStart" =>
    LET dir == repoDir(issue.number) IN
    /\ HasOp("clone")
    /\ calls[1] = Call("clone", TRUE, TRUE)
    /\ \A q \in DOMAIN RepoTree : dir \o q \in DOMAIN files
    /\ \A p \in DOMAIN files :
         Inside(dir, p) => (/\ Below(dir, p) \in DOMAIN RepoTree
                            /\ files[p] = RepoTree[Below(dir, p)])
    /\ { d \in dirs : Inside(dir, d) } = {dir, dir \o <<".git">>}

\* The loop is invoked in a run that follows another one (which wrote ../x).
C15_Witness ==
  /\ pc = "LoopStart"
  /\ <<"w", "x">> \in DOMAIN files
  /\ calls[1] = Call("clone", TRUE, TRUE)

\* C16: whenever openaiLoop runs, the current branch of the workspace is the
\* item branch agent/issue-<id>-<slug>, created from the configured base
\* branch; the loop never runs on the base branch or on any other branch.
C16_LoopRunsOnItemBranch ==
  pc \in {"LoopStart", "Requesting", "Dispatching"} =>
    head = OnBranch(BranchName(issue), BaseBranch)

\* C17: after either outcome of a run (the no-change comment posted, or the
\* change request and its comment posted) main comes back to Selecting: the
\* only step out of the sleep after a run leads there, and it is taken.
C17_ReturnsToSelecting ==
  /\ (pc = "RunSleep") ~> (pc = "Selecting")
  /\ [][(pc = "RunSleep") => (pc' = "Selecting")]_vars

C17_Witness ==
  /\ pc = "RunSleep"
  /\ HasOp("pulls.create")
  /\ calls[Len(calls)] = Call("createComment", TRUE, TRUE)

GitOps == {"clone", "checkout", "checkout -b", "add", "commit", "push"}

\* C19: the deny-list never refuses a version-control command of the pipeline
\* itself (clone, checkout, checkout -b, add, commit, push), whatever the title
\* of the item: each of them is handed to the shell.
C19_PipelineCommandsNeverRefused ==
  \A k \in 1..Len(calls) : calls[k].op \in GitOps => calls[k].spawned

\* Before the k-th call of the run, op was invoked and succeeded.
SucceededBefore(op, k) == \E i \in 1..(k - 1) : calls[i] = Call(op, TRUE, TRUE)

\* C20: in Publishing each step is attempted only when the one before it
\* succeeded: git push only after git add and git commit both succeeded, the
\* change request only after commit and push both succeeded.
C20_StepsOnlyAfterSuccess ==
  \A k \in 1..Len(calls) :
    /\ calls[k].op = "push" => (SucceededBefore("add", k) /\ SucceededBefore("commit", k))
    /\ calls[k].op = "pulls.create" =>
         (SucceededBefore("commit", k) /\ SucceededBefore("push", k))

=============================================================================
